---- MODULE Spec2Model ----
(***************************************************************************)
(* Model of templatetags/gencal.py: the calendar grid builder gencal, its  *)
(* nested helpers, the simple_gencal tag parser and SimpleGencalNode.      *)
(* Dates are records [year, month, day]; datetimes carry an extra hour.    *)
(* Date arithmetic goes through proleptic Gregorian ordinals, as the       *)
(* datetime library does it.                                               *)
(***************************************************************************)
EXTENDS Integers, Sequences, FiniteSets, TLC

VARIABLES
    pc,                 \* position of the caller: "start", "done"
    date,               \* the date object handed to gencal (year, month read at line 170)
    cal_items,          \* the list object handed to gencal
    result,             \* what the last gencal call returned or raised
    week,               \* gencal's local `week` when the call ended (line 173/179)
    events_by_day,      \* gencal's local defaultdict when the call ended (line 172)
    today,              \* the wall clock date (datetime.datetime.today())
    default_date,       \* default of parameter `date`, evaluated at line 85
    default_cal_items,  \* default of parameter `cal_items`, the shared [] of line 85
    args,               \* the last call: which arguments were passed, and when
    seen,               \* a remembered earlier call: its inputs and its result
    contents,           \* token.contents handed to simple_gencal
    parsed,             \* outcome of simple_gencal: a node was built, or what was raised
    node,               \* the SimpleGencalNode's fields
    context,            \* the template context of the last render
    rendered            \* outcome of the last render

vars == <<pc, date, cal_items, result, week, events_by_day, today, default_date,
          default_cal_items, args, seen, contents, parsed, node, context, rendered>>

gridVars == <<pc, date, cal_items, result, week, events_by_day>>
callVars == <<today, default_date, default_cal_items, args, seen>>
tagVars == <<contents, parsed, node, context, rendered>>

\* ---------------------------------------------------------------- bounds
\* All years lie well inside datetime's range (1..9999), so no date
\* computed from them leaves it.
MinYear == 1895         \* years of the dates handed to gencal without events
MaxYear == 2105
EvMinYear == 2007       \* years of the dates handed to gencal with events
EvMaxYear == 2008
MaxItems == 2           \* longest cal_items list
MaxCallItems == 1       \* longest cal_items list of the repeated calls
MaxTicks == 2           \* days the clock advances after the module is loaded
MaxWords == 10          \* most words of a token

None == "None"           \* Python's None where strings live (a url, an error kind)
Unset == [none |-> TRUE] \* nothing there yet, where records live

\* ------------------------------------------------- datetime / calendar
isleap(year) == year % 4 = 0 /\ (year % 100 # 0 \/ year % 400 = 0)

mdays(month) == <<31, 28, 31, 30, 31, 30, 31, 31, 30, 31, 30, 31>>[month]

days_in_month(year, month) ==
    IF month = 2 /\ isleap(year) THEN 29 ELSE mdays(month)

RECURSIVE days_before_month(_, _)
days_before_month(year, month) ==
    IF month = 1 THEN 0
    ELSE days_before_month(year, month - 1) + days_in_month(year, month - 1)

days_before_year(year) ==
    LET y == year - 1 IN y * 365 + (y \div 4) - (y \div 100) + (y \div 400)

\* date.toordinal(): 1 for 0001-01-01
toordinal(d) == days_before_year(d.year) + days_before_month(d.year, d.month) + d.day

\* date.fromordinal(n), the library's _ord2ymd
fromordinal(ord) ==
    LET n0   == ord - 1
        n400 == n0 \div 146097
        r400 == n0 % 146097
        n100 == r400 \div 36524
        r100 == r400 % 36524
        n4   == r100 \div 1461
        r4   == r100 % 1461
        n1   == r4 \div 365
        n    == r4 % 365
        year == n400 * 400 + 1 + n100 * 100 + n4 * 4 + n1
    IN  IF n1 = 4 \/ n100 = 4
        THEN [year |-> year - 1, month |-> 12, day |-> 31]
        ELSE LET leap  == n1 = 3 /\ (n4 # 24 \/ n100 = 3)
                 m0    == (n + 50) \div 32
                 bump(m) == IF m > 2 /\ leap THEN 1 ELSE 0
                 before(m) == days_before_month(1, m) + bump(m)
                 month == IF before(m0) > n THEN m0 - 1 ELSE m0
             IN  [year |-> year, month |-> month, day |-> n - before(month) + 1]

\* date.weekday(): Monday is 0, Sunday is 6
weekday(d) == (toordinal(d) + 6) % 7

\* date + datetime.timedelta(days)
date_add(d, days) == fromordinal(toordinal(d) + days)

\* (variant: no month check)
\* (variant: the month is not checked)
monthrange_never_raises(year, month) == FALSE

\* calendar.monthrange raises IllegalMonthError unless 1 <= month <= 12
monthrange_raises(year, month) == ~(1 <= month /\ month <= 12)

\* calendar.monthrange(year, month): (weekday of the 1st, days in the month)
monthrange(year, month) ==
    <<weekday([year |-> year, month |-> month, day |-> 1]), days_in_month(year, month)>>

\* datetime.date(year, month, day) raises ValueError on a month or day out of range
date_raises(year, month, day) ==
    ~(1 <= month /\ month <= 12) \/ ~(1 <= day /\ day <= days_in_month(year, month))

mkdate(year, month, day) == [year |-> year, month |-> month, day |-> day]

Raise(kind) == [error |-> kind]
IsError(r) == "error" \in DOMAIN r

\* ------------------------------------------------- gencal: nested helpers
first_day_of_month(year, month) == mkdate(year, month, 1)

last_day_of_month(year, month) == mkdate(year, month, monthrange(year, month)[2])

head_days(year, month) == weekday(first_day_of_month(year, month))

\* (variant: counts up to the next Monday)
tail_days_to_monday(year, month) == 7 - weekday(last_day_of_month(year, month))

tail_days(year, month) == 6 - weekday(last_day_of_month(year, month))

\* (variant: isoweekday, 1..7, in place of weekday)
first_day_of_calendar_iso(year, month) ==
    date_add(first_day_of_month(year, month),
             0 - (weekday(first_day_of_month(year, month)) + 1))

first_day_of_calendar(year, month) ==
    date_add(first_day_of_month(year, month), 0 - weekday(first_day_of_month(year, month)))

total_days_in_calendar(year, month) ==
    head_days(year, month) + monthrange(year, month)[2] + tail_days(year, month)

\* What stops get_iterable_days before its first yield, if anything
iterable_days_raises(year, month) ==
    IF monthrange_raises(year, month) THEN "IllegalMonthError"
    ELSE IF date_raises(year, month, 1) THEN "ValueError"
    ELSE IF total_days_in_calendar(year, month) % 7 # 0 THEN "AssertionError"
    ELSE None

\* The days get_iterable_days yields, in order
get_iterable_days(year, month) ==
    LET start == first_day_of_calendar(year, month)
        base  == toordinal(start)
    IN  [i \in 1..total_days_in_calendar(year, month) |-> fromordinal(base + (i - 1))]

\* (variant: the year is not rolled over)
get_prev_next_months_same_year(year, month) ==
    LET lastmonth == month - 1
        nextmonth == month + 1
    IN  IF lastmonth = 0
        THEN <<mkdate(year, 12, 1), mkdate(year, nextmonth, 1)>>
        ELSE IF nextmonth = 13
        THEN <<mkdate(year, lastmonth, 1), mkdate(year, 1, 1)>>
        ELSE <<mkdate(year, lastmonth, 1), mkdate(year, nextmonth, 1)>>

get_prev_next_months(year, month) ==
    LET lastmonth == month - 1
        nextmonth == month + 1
    IN  IF lastmonth = 0
        THEN <<mkdate(year - 1, 12, 1), mkdate(year, nextmonth, 1)>>
        ELSE IF nextmonth = 13
        THEN <<mkdate(year, lastmonth, 1), mkdate(year + 1, 1, 1)>>
        ELSE <<mkdate(year, lastmonth, 1), mkdate(year, nextmonth, 1)>>

\* (variant: the dictionary of the call before is used again)
kept_events_by_day == events_by_day

\* defaultdict(list): a function on the keys present; a lookup of a missing
\* key gives [] and inserts the key
new_events_by_day == [k \in {} |-> <<>>]

dict_get(d, k) == IF k \in DOMAIN d THEN d[k] ELSE <<>>

dict_put(d, k, v) == [x \in (DOMAIN d) \cup {k} |-> IF x = k THEN v ELSE d[x]]

\* (variant: the event's own 'day' value is the key, time of day included)
event_key_uncoerced(d) == d

\* datetime.date(d.year, d.month, d.day): the grouping key of an event
event_key(d) == mkdate(d.year, d.month, d.day)

event_entry(event) ==
    [title |-> event.title, url |-> event.url, class |-> event.class,
     timestamp |-> event.day]

RECURSIVE events_loop(_, _, _)
events_loop(items, i, d) ==
    IF i > Len(items) THEN d
    ELSE LET k == event_key(items[i].day)
         IN  events_loop(items, i + 1,
                         dict_put(d, k, Append(dict_get(d, k), event_entry(items[i]))))

get_events_by_day(items) == events_loop(items, 1, new_events_by_day)

\* (variant: compares with <=)
in_month_upto(day, month) == day.month <= month

in_month(day, month) == day.month = month

\* The loop of lines 174-179 over the yielded days
RECURSIVE days_loop(_, _, _, _, _, _)
days_loop(days, i, month, wk, cal, ebd) ==
    IF i > Len(days) THEN [month_cal |-> cal, week |-> wk, events_by_day |-> ebd]
    ELSE LET day     == days[i]
             cal_day == [day |-> day, event |-> dict_get(ebd, day),
                         in_month |-> in_month(day, month)]
             ebd2    == dict_put(ebd, day, dict_get(ebd, day))
             wk2     == Append(wk, cal_day)
         IN  IF weekday(day) = 6
             THEN days_loop(days, i + 1, month, <<>>, Append(cal, wk2), ebd2)
             ELSE days_loop(days, i + 1, month, wk2, cal, ebd2)

\* calendar.weekheader(2).split(' ')
week_headers == <<"Mo", "Tu", "We", "Th", "Fr", "Sa", "Su">>

\* One call of gencal: what it returns or raises (ret) and its locals at the end
gencal(d, items) ==
    LET year  == d.year
        month == d.month
        ebd   == get_events_by_day(items)
        stop  == iterable_days_raises(year, month)
    IN  IF stop # None
        THEN [ret |-> Raise(stop), week |-> <<>>, events_by_day |-> ebd]
        ELSE LET loop == days_loop(get_iterable_days(year, month), 1, month, <<>>, <<>>, ebd)
                 pn   == get_prev_next_months(year, month)
             IN  [ret |-> [month_cal |-> loop.month_cal, headers |-> week_headers,
                           date |-> d, prev_date |-> pn[1], next_date |-> pn[2]],
                  week |-> loop.week, events_by_day |-> loop.events_by_day]

\* ------------------------------------------------- inputs
\* datetime / date values events carry in 'day'
dt(year, month, day, hour) == [year |-> year, month |-> month, day |-> day, hour |-> hour]

EventPool ==
    { [day |-> dt(2008, 1, 30, 14), title |-> "Concert", url |-> "/foo/2", class |-> "concert"],
      [day |-> dt(2008, 1, 30, 9),  title |-> "Lunch",   url |-> None,     class |-> ""],
      [day |-> dt(2008, 2, 4, 0),   title |-> "BBQ",     url |-> "/restaurants/9", class |-> "restaurant"],
      [day |-> dt(2008, 1, 28, 20), title |-> "Film",    url |-> "/foo/3", class |-> ""] }

ItemLists == UNION { [1..n -> EventPool] : n \in 0..MaxItems }

\* date objects handed to gencal; month 0 and 13 are what a caller passing an
\* object with a bad month attribute hands in
DateArgs == { mkdate(y, m, 1) : y \in MinYear..MaxYear, m \in 0..13 }

EvDateArgs == { mkdate(y, m, 15) : y \in EvMinYear..EvMaxYear, m \in 1..12 }

\* ------------------------------------------------- the grid builder, called once
InitTagIdle ==
    /\ contents = <<>>
    /\ parsed = Unset
    /\ node = Unset
    /\ context = Unset
    /\ rendered = Unset

InitIdle ==
    /\ today = mkdate(2008, 1, 1)
    /\ default_date = mkdate(2008, 1, 1)
    /\ default_cal_items = <<>>
    /\ args = Unset
    /\ seen = Unset
    /\ InitTagIdle

InitCall ==
    /\ pc = "start"
    /\ result = Unset
    /\ week = <<>>
    /\ events_by_day = [k \in {} |-> <<>>]

\* every (year, month), no events
Init ==
    /\ date \in DateArgs
    /\ cal_items = <<>>
    /\ InitCall
    /\ InitIdle

\* the months around the events of EventPool, every event list
InitEvents ==
    /\ date \in EvDateArgs
    /\ cal_items \in ItemLists
    /\ InitCall
    /\ InitIdle

Gencal ==
    /\ pc = "start"
    /\ \E run \in {gencal(date, cal_items)} :
           /\ result' = run.ret
           /\ week' = run.week
           /\ events_by_day' = run.events_by_day
    /\ pc' = "done"
    /\ UNCHANGED <<date, cal_items, callVars, tagVars>>

Next == Gencal

Spec == Init /\ [][Next]_vars

SpecEvents == InitEvents /\ [][Next]_vars

\* ------------------------------------------------- gencal called again and again
LoadDate == mkdate(2008, 1, 30)

CallDates == { mkdate(2008, 2, 15) }

CallPool == { e \in EventPool : e.title = "Concert" }

CallItemLists == UNION { [1..n -> CallPool] : n \in 0..MaxCallItems }

\* `def gencal(date = datetime.datetime.today(), cal_items=[])` is executed
\* once, when the module is loaded: both defaults are evaluated then
InitCalls ==
    /\ today = LoadDate
    /\ default_date = today
    /\ default_cal_items = <<>>
    /\ args = Unset
    /\ seen = Unset
    /\ pc = "idle"
    /\ date = LoadDate
    /\ cal_items = <<>>
    /\ result = Unset
    /\ week = <<>>
    /\ events_by_day = [k \in {} |-> <<>>]
    /\ InitTagIdle

\* the wall clock moves on to the next day
Tick ==
    /\ toordinal(today) < toordinal(LoadDate) + MaxTicks
    /\ today' = date_add(today, 1)
    /\ UNCHANGED <<gridVars, default_date, default_cal_items, args, seen, tagVars>>

\* gencal(...) with each argument passed or left to its default
Call(date_given, d, items_given, items) ==
    /\ pc \in {"idle", "done"}
    /\ date' = (IF date_given THEN d ELSE default_date)
    /\ cal_items' = (IF items_given THEN items ELSE default_cal_items)
    /\ \E run \in {gencal(date', cal_items')} :
           /\ result' = run.ret
           /\ week' = run.week
           /\ events_by_day' = run.events_by_day
    /\ args' = [date_given |-> date_given, items_given |-> items_given, at |-> today]
    /\ pc' = "done"
    /\ UNCHANGED <<today, default_date, default_cal_items, seen, tagVars>>

CallWithBoth == \E d \in CallDates : \E items \in CallItemLists : Call(TRUE, d, TRUE, items)

CallWithDate == \E d \in CallDates : Call(TRUE, d, FALSE, <<>>)

CallWithItems == \E items \in CallItemLists : Call(FALSE, LoadDate, TRUE, items)

CallWithNothing == Call(FALSE, LoadDate, FALSE, <<>>)

\* an observer keeps the last call's inputs and result to compare later calls with
Remember ==
    /\ pc = "done"
    /\ seen' = [date_given |-> args.date_given, items_given |-> args.items_given,
                date |-> date, cal_items |-> cal_items, at |-> args.at,
                result |-> result]
    /\ UNCHANGED <<gridVars, today, default_date, default_cal_items, args, tagVars>>

NextCalls ==
    \/ Tick
    \/ CallWithBoth
    \/ CallWithDate
    \/ CallWithItems
    \/ CallWithNothing
    \/ Remember

SpecCalls == InitCalls /\ [][NextCalls]_vars

\* ------------------------------------------------- strings
\* Strings the parser takes apart are sequences of one-character strings.
w_simple_gencal == <<"s", "i", "m", "p", "l", "e", "_", "g", "e", "n", "c", "a", "l">>
w_for == <<"f", "o", "r">>
w_FOR == <<"F", "O", "R">>
w_of == <<"o", "f">>
w_on == <<"o", "n">>
w_On == <<"O", "n">>
w_at == <<"a", "t">>
w_in == <<"i", "n">>
w_to == <<"t", "o">>
w_with == <<"w", "i", "t", "h">>
w_as == <<"a", "s">>
w_event_Event == <<"e", "v", "e", "n", "t", ".", "E", "v", "e", "n", "t">>
w_Event == <<"E", "v", "e", "n", "t">>
w_a_b_c == <<"a", ".", "b", ".", "c">>
w_no_Such == <<"n", "o", ".", "S", "u", "c", "h">>
w_day == <<"d", "a", "y">>
w_date == <<"d", "a", "t", "e">>
w_when == <<"w", "h", "e", "n">>
w_cal_html == <<"c", "a", "l", ".", "h", "t", "m", "l">>
w_extra == <<"e", "x", "t", "r", "a">>
w_event == <<"e", "v", "e", "n", "t">>
w_gencal_html == <<"g", "e", "n", "c", "a", "l", "/", "g", "e", "n", "c", "a", "l", ".", "h", "t", "m", "l">>

upper_letters == <<"A", "B", "C", "D", "E", "F", "G", "H", "I", "J", "K", "L", "M", "N", "O", "P", "Q", "R", "S", "T", "U", "V", "W", "X", "Y", "Z">>
lower_letters == <<"a", "b", "c", "d", "e", "f", "g", "h", "i", "j", "k", "l", "m", "n", "o", "p", "q", "r", "s", "t", "u", "v", "w", "x", "y", "z">>

lower_char(c) ==
    IF \E k \in 1..Len(upper_letters) : upper_letters[k] = c
    THEN lower_letters[CHOOSE k \in 1..Len(upper_letters) : upper_letters[k] = c]
    ELSE c

\* str.lower()
lower(word) == [i \in 1..Len(word) |-> lower_char(word[i])]

\* str.split(): runs of whitespace separate the words, none of them empty
RECURSIVE split_ws(_, _, _, _)
split_ws(str, i, cur, out) ==
    IF i > Len(str) THEN (IF cur = <<>> THEN out ELSE Append(out, cur))
    ELSE IF str[i] = " "
    THEN split_ws(str, i + 1, <<>>, IF cur = <<>> THEN out ELSE Append(out, cur))
    ELSE split_ws(str, i + 1, Append(cur, str[i]), out)

split(str) == split_ws(str, 1, <<>>, <<>>)

\* str.split(sep): every separator cuts, empty pieces are kept
RECURSIVE split_sep(_, _, _, _, _)
split_sep(str, sep, i, cur, out) ==
    IF i > Len(str) THEN Append(out, cur)
    ELSE IF str[i] = sep
    THEN split_sep(str, sep, i + 1, <<>>, Append(out, cur))
    ELSE split_sep(str, sep, i + 1, Append(cur, str[i]), out)

split_on(str, sep) == split_sep(str, sep, 1, <<>>, <<>>)

\* ------------------------------------------------- simple_gencal
keywords == <<w_for, w_on, w_in, w_with>>

min(a, b) == IF a < b THEN a ELSE b

\* (variant: all four keywords are looked for, whatever the token's length)
iterations_all(bits) == Len(keywords)

iterations(bits) == min(Len(keywords), Len(bits) \div 2)

\* any(keywords[i] != bits[2 * i + 1].lower() for i in range(iterations)),
\* from index i on: "mismatch", "ok", or "IndexError" when bits[2 * i + 1]
\* does not exist
RECURSIVE keywords_check(_, _, _)
keywords_check(bits, i, n) ==
    IF i >= n THEN "ok"
    ELSE IF 2 * i + 1 >= Len(bits) THEN "IndexError"
    ELSE IF keywords[i + 1] # lower(bits[2 * i + 2]) THEN "mismatch"
    ELSE keywords_check(bits, i + 1, n)

\* get_model(app_label, model_name): the installed models
InstalledModels == { <<w_event, w_Event>> }

get_model(app_label, model_name) ==
    IF <<app_label, model_name>> \in InstalledModels
    THEN [app |-> app_label, name |-> model_name]
    ELSE Unset

\* django.template.Variable(name)
Variable(name) == [var |-> name]

\* SimpleGencalNode.__init__: the node, or the assertion that failed
SimpleGencalNode(model, field, date_obj, template) ==
    LET model_list == split_on(model, ".")
    IN  IF Len(model_list) # 2 THEN Raise("AssertionError")
        ELSE IF get_model(model_list[1], model_list[2]) = Unset THEN Raise("AssertionError")
        ELSE [field |-> field, date_obj |-> Variable(date_obj), template |-> template,
              model |-> get_model(model_list[1], model_list[2])]

\* simple_gencal(parser, token): the node it returns, or what it raises
simple_gencal(token_contents) ==
    LET bits  == split(token_contents)
        check == keywords_check(bits, 0, iterations(bits))
    IN  IF check = "IndexError" THEN Raise("IndexError")
        ELSE IF check = "mismatch" THEN Raise("TemplateSyntaxError")
        ELSE IF Len(bits) \notin {5, 7, 9} THEN Raise("TemplateSyntaxError")
        ELSE LET model    == bits[3]
                 field    == bits[5]
                 date_obj == IF Len(bits) > 6 THEN bits[7] ELSE w_date
                 template == IF Len(bits) > 6 /\ Len(bits) > 8 THEN bits[9] ELSE w_gencal_html
             IN  SimpleGencalNode(model, field, date_obj, template)

\* ------------------------------------------------- SimpleGencalNode.render
\* The rows of event.Event, in the order the default manager returns them
EventTable ==
    << [day |-> dt(2008, 1, 30, 14), title |-> "Concert", url |-> "/foo/2"],
       [day |-> dt(2008, 2, 4, 0),   title |-> "BBQ",     url |-> "/restaurants/9"],
       [day |-> dt(2008, 1, 30, 9),  title |-> "Lunch",   url |-> "/foo/4"] >>

\* self.model._default_manager.filter(<field>__year = year, <field>__month = month)
filter_year_month(year, month) ==
    LET hit(row) == row.day.year = year /\ row.day.month = month
    IN  SelectSeq(EventTable, hit)

\* Variable.resolve(context) finds the name in the context or raises
resolves(variable, ctx) == variable.var \in DOMAIN ctx

IsVariable(obj) == DOMAIN obj = {"var"}

\* One render: what it returns or raises (ret) and the node afterwards
render(self, ctx) ==
    IF ~IsVariable(self.date_obj)
    THEN [ret |-> Raise("AttributeError"), node |-> self]
    ELSE IF ~resolves(self.date_obj, ctx)
    THEN [ret |-> Raise("VariableDoesNotExist"), node |-> self]
    ELSE LET date_obj  == ctx[self.date_obj.var]
             self2     == [self EXCEPT !.date_obj = date_obj]
             event_set == filter_year_month(date_obj.year, date_obj.month)
             items     == [i \in 1..Len(event_set) |->
                              [day |-> event_set[i].day, title |-> event_set[i].title,
                               url |-> event_set[i].url, class |-> ""]]
             d         == gencal(date_obj, items).ret
         IN  IF IsError(d) THEN [ret |-> d, node |-> self2]
             ELSE [ret |-> [template |-> self.template, context |-> d], node |-> self2]

\* ------------------------------------------------- the tag, parsed and rendered
\* the words a token may hold at each position (0 is the tag name)
WordsAt(position) ==
    CASE position = 0 -> {w_simple_gencal}
      [] position = 1 -> {w_for, w_FOR, w_of}
      [] position = 2 -> {w_event_Event, w_Event, w_a_b_c, w_no_Such}
      [] position = 3 -> {w_on, w_On, w_at}
      [] position = 4 -> {w_day}
      [] position = 5 -> {w_in, w_to}
      [] position = 6 -> {w_date, w_when}
      [] position = 7 -> {w_with, w_as}
      [] position = 8 -> {w_cal_html}
      [] OTHER -> {w_extra}

RECURSIVE TokensOfLen(_)
TokensOfLen(n) ==
    IF n = 0 THEN {<<>>}
    ELSE { Append(t, w) : t \in TokensOfLen(n - 1), w \in WordsAt(n - 1) }

RECURSIVE join(_, _)
join(words, sep) ==
    IF words = <<>> THEN <<>>
    ELSE IF Len(words) = 1 THEN words[1]
    ELSE words[1] \o sep \o join(Tail(words), sep)

\* token.contents: the words, one or two blanks apart
TokenContents ==
    { join(t, sep) : t \in UNION { TokensOfLen(n) : n \in 0..MaxWords },
                     sep \in {<<" ">>, <<" ", " ">>} }

RenderDates == { mkdate(2008, 1, 15), mkdate(2008, 2, 15) }

\* template contexts: the variables they hold
Contexts ==
    { [n \in names |-> d] : names \in {{w_date}, {w_when}, {w_date, w_when}},
                            d \in RenderDates }

InitTag ==
    /\ pc = "token"
    /\ contents \in TokenContents
    /\ parsed = Unset
    /\ node = Unset
    /\ context = Unset
    /\ rendered = Unset
    /\ date = LoadDate
    /\ cal_items = <<>>
    /\ result = Unset
    /\ week = <<>>
    /\ events_by_day = [k \in {} |-> <<>>]
    /\ today = LoadDate
    /\ default_date = LoadDate
    /\ default_cal_items = <<>>
    /\ args = Unset
    /\ seen = Unset

\* the template is compiled: simple_gencal is called on the token
Parse ==
    /\ pc = "token"
    /\ \E out \in {simple_gencal(contents)} :
           IF IsError(out)
           THEN parsed' = out /\ node' = Unset
           ELSE parsed' = [built |-> TRUE] /\ node' = out
    /\ pc' = "parsed"
    /\ UNCHANGED <<contents, context, rendered, date, cal_items, result, week,
                   events_by_day, callVars>>

\* the compiled template is rendered with a context: node.render(context)
Render(ctx) ==
    /\ pc \in {"parsed", "rendered"}
    /\ node # Unset
    /\ \E run \in {render(node, ctx)} :
           /\ rendered' = run.ret
           /\ node' = run.node
    /\ context' = ctx
    /\ pc' = "rendered"
    /\ UNCHANGED <<contents, parsed, date, cal_items, result, week,
                   events_by_day, callVars>>

NextTag ==
    \/ Parse
    \/ \E ctx \in Contexts : Render(ctx)

SpecTag == InitTag /\ [][NextTag]_vars

\* ------------------------------------------------- vocabulary of the properties
Returned == pc = "done" /\ ~IsError(result)

ValidMonth == date.month \in 1..12

RECURSIVE Flatten(_)
Flatten(weeks) == IF weeks = <<>> THEN <<>> ELSE Head(weeks) \o Flatten(Tail(weeks))

Cells == Flatten(result.month_cal)

\* the calendar day after d, by the civil rules (not through ordinals)
NextDay(d) ==
    LET leap == d.year % 4 = 0 /\ (d.year % 100 # 0 \/ d.year % 400 = 0)
        len  == IF d.month = 2 THEN (IF leap THEN 29 ELSE 28)
                ELSE IF d.month \in {4, 6, 9, 11} THEN 30 ELSE 31
    IN  IF d.day < len THEN [d EXCEPT !.day = d.day + 1]
        ELSE IF d.month < 12 THEN [d EXCEPT !.month = d.month + 1, !.day = 1]
        ELSE [year |-> d.year + 1, month |-> 1, day |-> 1]

MonthLen(y, m) ==
    IF m = 2 THEN (IF y % 4 = 0 /\ (y % 100 # 0 \/ y % 400 = 0) THEN 29 ELSE 28)
    ELSE IF m \in {4, 6, 9, 11} THEN 30 ELSE 31

\* d1 <= d2 as calendar dates
DateLeq(d1, d2) ==
    \/ d1.year < d2.year
    \/ d1.year = d2.year /\ d1.month < d2.month
    \/ d1.year = d2.year /\ d1.month = d2.month /\ d1.day <= d2.day

\* C1: for a valid (year, month) the call returns (the assertion of line 143
\* does not fail), every week of month_cal has 7 cells, no day is left in the
\* local `week`, and the cell count is head_days + days_in_month + tail_days,
\* a multiple of 7 between 28 and 42; February 2008 has 5 weeks.
C1_WholeWeeks ==
    (pc = "done" /\ ValidMonth) =>
        /\ ~IsError(result)
        /\ \A w \in 1..Len(result.month_cal) : Len(result.month_cal[w]) = 7
        /\ week = <<>>
        /\ Len(Cells) = head_days(date.year, date.month)
                        + MonthLen(date.year, date.month)
                        + tail_days(date.year, date.month)
        /\ Len(Cells) = 7 * Len(result.month_cal)
        /\ Len(Cells) % 7 = 0
        /\ Len(Cells) >= 28 /\ Len(Cells) <= 42
        /\ (date.year = 2008 /\ date.month = 2) =>
               (Len(result.month_cal) = 5 /\ Len(Cells) = 35)

C1_Witness ==
    /\ Returned
    /\ date.year = 2008 /\ date.month = 2
    /\ Len(result.month_cal) = 5

\* C2: the cells in order are consecutive calendar dates; the first is the
\* Monday on or before the 1st, the last the Sunday on or after the last day
\* of the month; every week runs Monday..Sunday; at most 6 padding days lead
\* and at most 6 trail.
C2_ConsecutiveMondayToSunday ==
    (pc = "done" /\ ValidMonth) =>
        /\ ~IsError(result)
        /\ Len(Cells) > 0
        /\ \A i \in 1..(Len(Cells) - 1) : Cells[i + 1].day = NextDay(Cells[i].day)
        /\ weekday(Cells[1].day) = 0
        /\ weekday(Cells[Len(Cells)].day) = 6
        /\ DateLeq(Cells[1].day, mkdate(date.year, date.month, 1))
        /\ DateLeq(mkdate(date.year, date.month, MonthLen(date.year, date.month)),
                   Cells[Len(Cells)].day)
        /\ \A w \in 1..Len(result.month_cal) :
               \A j \in 1..Len(result.month_cal[w]) :
                   weekday(result.month_cal[w][j].day) = j - 1
        /\ \E lead \in 0..6 : Cells[lead + 1].day = mkdate(date.year, date.month, 1)
        /\ \E trail \in 0..6 :
               Cells[Len(Cells) - trail].day
                   = mkdate(date.year, date.month, MonthLen(date.year, date.month))

\* a month that starts on a Saturday and needs six weeks
C2_Witness ==
    /\ Returned
    /\ Len(result.month_cal) = 6
    /\ Cells[6].day.day = 1
    /\ Cells[1].day.month # date.month
    /\ Cells[Len(Cells)].day.month # date.month

\* C3: every date of the requested month is in exactly one cell, and a cell
\* is flagged in_month exactly when its date is in the requested year and month.
C3_InMonth ==
    (pc = "done" /\ ValidMonth) =>
        /\ ~IsError(result)
        /\ \A dd \in 1..MonthLen(date.year, date.month) :
               Cardinality({ i \in 1..Len(Cells) :
                   Cells[i].day = mkdate(date.year, date.month, dd) }) = 1
        /\ \A i \in 1..Len(Cells) :
               Cells[i].in_month
                   <=> (Cells[i].day.year = date.year /\ Cells[i].day.month = date.month)

\* a January grid with padding from December of the year before and from February
C3_Witness ==
    /\ Returned
    /\ date.month = 1
    /\ \E i \in 1..Len(Cells) :
           Cells[i].day.year = date.year - 1 /\ Cells[i].day.month = 12 /\ ~Cells[i].in_month
    /\ \E i \in 1..Len(Cells) : Cells[i].day.month = 2 /\ ~Cells[i].in_month
    /\ \E i \in 1..Len(Cells) : Cells[i].in_month

\* C5: prev_date / next_date are the 1st of the month before / after the
\* requested month, with the year rolling over at January and December.
C5_PrevNext ==
    (pc = "done" /\ ValidMonth) =>
        /\ ~IsError(result)
        /\ result.prev_date.day = 1 /\ result.next_date.day = 1
        /\ date.month = 1 =>
               /\ result.prev_date = mkdate(date.year - 1, 12, 1)
               /\ result.next_date = mkdate(date.year, 2, 1)
        /\ date.month = 12 =>
               /\ result.next_date = mkdate(date.year + 1, 1, 1)
               /\ result.prev_date = mkdate(date.year, 11, 1)
        /\ date.month \in 2..11 =>
               /\ result.prev_date = mkdate(date.year, date.month - 1, 1)
               /\ result.next_date = mkdate(date.year, date.month + 1, 1)
        /\ date.month \in 2..12 => result.prev_date = mkdate(date.year, date.month - 1, 1)
        /\ date.month \in 1..11 => result.next_date = mkdate(date.year, date.month + 1, 1)

C5_Witness ==
    /\ Returned
    /\ date.month = 12
    /\ result.next_date.year = date.year + 1
    /\ result.next_date.month = 1

\* C6: a call with a month outside 1..12 raises the calendar module's
\* invalid-month error and returns nothing: no month_cal, headers or anchors.
C6_BadMonthFails ==
    (pc = "done" /\ ~ValidMonth) =>
        /\ result = Raise("IllegalMonthError")
        /\ DOMAIN result \cap {"month_cal", "headers", "date", "prev_date", "next_date"} = {}
        /\ week = <<>>

C6_Witness ==
    /\ pc = "done"
    /\ date.month = 13
    /\ IsError(result)

\* the entries of the input events dated d (time of day ignored), in input order
SameDay(e, d) == e.day.year = d.year /\ e.day.month = d.month /\ e.day.day = d.day

EntriesOn(d) ==
    LET on(e) == SameDay(e, d)
        sel   == SelectSeq(cal_items, on)
    IN  [i \in 1..Len(sel) |->
            [title |-> sel[i].title, url |-> sel[i].url, class |-> sel[i].class,
             timestamp |-> sel[i].day]]

CellsWith(e) == { k \in 1..Len(Cells) : \E j \in 1..Len(Cells[k].event) :
                      Cells[k].event[j] = [title |-> e.title, url |-> e.url,
                                           class |-> e.class, timestamp |-> e.day] }

\* C4: a cell's event list is exactly the input events dated on the cell's
\* day, in input order, with title, url, class and the original timestamp;
\* an event is in at most one cell, and an event dated outside the grid is in
\* no cell and raises nothing.
C4_EventsPerCell ==
    pc = "done" =>
        /\ ~IsError(result)
        /\ \A k \in 1..Len(Cells) : Cells[k].event = EntriesOn(Cells[k].day)
        /\ \A i \in 1..Len(cal_items) :
               /\ Cardinality(CellsWith(cal_items[i])) <= 1
               /\ (\A k \in 1..Len(Cells) : ~SameDay(cal_items[i], Cells[k].day))
                      => CellsWith(cal_items[i]) = {}

\* two events of the same day at different hours share a padding cell, in
\* input order
C4_Witness ==
    /\ Returned
    /\ Len(cal_items) = 2
    /\ \E k \in 1..Len(Cells) :
           /\ Len(Cells[k].event) = 2
           /\ ~Cells[k].in_month
           /\ Cells[k].event[1].timestamp.hour # Cells[k].event[2].timestamp.hour
           /\ Cells[k].event[1].title = cal_items[1].title
           /\ Cells[k].event[2].title = cal_items[2].title

\* an event dated outside the displayed grid
C4_WitnessOutside ==
    /\ Returned
    /\ Len(cal_items) > 0
    /\ \A k \in 1..Len(Cells) : ~SameDay(cal_items[1], Cells[k].day)

\* C7: a call that passes no date uses the current date at the time of the
\* call, and returns it as 'date'.
C7_DefaultDateIsToday ==
    (pc = "done" /\ ~args.date_given) => (date = args.at /\ result.date = args.at)

SameInputs ==
    /\ seen.date_given = args.date_given
    /\ seen.items_given = args.items_given
    /\ args.date_given => seen.date = date
    /\ args.items_given => seen.cal_items = cal_items

Bits == split(contents)

Built == parsed = [built |-> TRUE]

KeywordsInPlace ==
    \A k \in 0..3 : (2 * k + 1 < Len(Bits)) => lower(Bits[2 * k + 2]) = keywords[k + 1]

WellFormed == Len(Bits) \in {5, 7, 9} /\ KeywordsInPlace

ExpectedDateVar == IF Len(Bits) >= 7 THEN Bits[7] ELSE w_date

ExpectedTemplate == IF Len(Bits) >= 9 THEN Bits[9] ELSE w_gencal_html

NodeAsWritten ==
    /\ node.field = Bits[5]
    /\ node.date_obj = [var |-> ExpectedDateVar]
    /\ node.template = ExpectedTemplate
    /\ <<node.model.app, <<".">>, node.model.name>>
           = <<SubSeq(Bits[3], 1, Len(node.model.app)), <<".">>,
               SubSeq(Bits[3], Len(node.model.app) + 2, Len(Bits[3]))>>
    /\ Bits[3][Len(node.model.app) + 1] = "."

\* C9 as claimed: every token either raises TemplateSyntaxError or builds a
\* node, never an index error; a node is built exactly for 5, 7 or 9 words
\* with the keywords in place, and gets words 2, 4, 6 and 8 or the defaults.
C9_SyntaxErrorOrNode ==
    pc # "token" =>
        /\ Built \/ parsed = Raise("TemplateSyntaxError")
        /\ Built <=> WellFormed
        /\ (Built /\ pc = "parsed") => NodeAsWritten

\* C9 amended: every token raises TemplateSyntaxError, or fails an assertion
\* of the node's constructor, or builds a node; never an index error.
\* TemplateSyntaxError is raised exactly when the token has not 5, 7 or 9
\* words with the keywords in place; of the others, those whose word 2 is
\* app.Model for an installed model build the node (with words 2, 4, 6, 8 or
\* the defaults) and the rest fail the assertion.
C9_SyntaxErrorAssertionOrNode ==
    pc # "token" =>
        /\ Built \/ parsed \in {Raise("TemplateSyntaxError"), Raise("AssertionError")}
        /\ parsed # Raise("IndexError")
        /\ (parsed = Raise("TemplateSyntaxError")) <=> ~WellFormed
        /\ WellFormed =>
               (Built <=> (\E m \in InstalledModels : Bits[3] = m[1] \o <<".">> \o m[2]))
        /\ (Built /\ pc = "parsed") => NodeAsWritten

\* a five-word token with an upper-case keyword builds a node with both defaults
C9_Witness ==
    /\ pc = "parsed"
    /\ Len(Bits) = 5
    /\ Bits[2] = w_FOR
    /\ Built
    /\ node.date_obj = [var |-> w_date]
    /\ node.template = w_gencal_html
    /\ node.model = [app |-> w_event, name |-> w_Event]

\* C10: render leaves the node as constructed (date_obj stays the template
\* variable), so every render of a node whose context holds the variable
\* succeeds and uses the date of the context it was given.
C10_RenderKeepsNode ==
    pc = "rendered" =>
        /\ node.date_obj = [var |-> ExpectedDateVar]
        /\ node.field = Bits[5]
        /\ node.template = ExpectedTemplate
        /\ (ExpectedDateVar \in DOMAIN context) =>
               /\ ~IsError(rendered)
               /\ rendered.context.date = context[ExpectedDateVar]

====
